---- MODULE Spec2Model ----
(***************************************************************************)
(* A model of bping.py: the GUI sweep (IPScannerGUI + ScanThread + the     *)
(* ThreadPoolExecutor running ping) and the command-line sweep             *)
(* (main + scan_network) as a state machine.                               *)
(*                                                                         *)
(* Addresses are integers (the numeric value of the IPv4 address, taken    *)
(* relative to 10.0.0.0); a range expression is a pair <<addr, prefix>>.   *)
(* Elapsed time (time.time()), the texts of the status label and a         *)
(* KeyboardInterrupt of the command-line run are not part of the model.    *)
(***************************************************************************)
EXTENDS Integers, Sequences, FiniteSets, TLC

\* ---------------------------------------------------------------- bounds
\* The worker-count input is drawn from 1..MaxWorkers.
MaxWorkers == 2
\* At most MaxSweeps ScanThread objects are created in one behaviour.
MaxSweeps == 2

\* ------------------------------------------------------ program constants
\* IPv4 prefix lengths are 0..32 (ipaddress.ip_network).
MaxPrefixLen == 32
\* The grid has 16 x 16 cells.
GridSize == 256
\* The worker-count input of the GUI accepts 1..200.
SpinBoxMax == 200
\* scan_network prints the progress every 10 addresses.
ProgressEvery == 10

\* ------------------------------------------------------------- ipaddress
RECURSIVE Pow2(_)
Pow2(n) == IF n = 0 THEN 1 ELSE 2 * Pow2(n - 1)

\* The text that is no address at all ("not-an-ip").
NotAnIp == <<-1, 0>>

\* The range expressions the user may type.
\* 10.0.0.0 and 10.0.0.1, with the prefix lengths /30 to /33.
AddrInputs == {0, 1}
PrefixInputs == 30..33
NetworkInputs ==
    {<<a, p>> : a \in AddrInputs, p \in PrefixInputs} \cup {NotAnIp}

\* ipaddress.ip_network(text) (strict): TRUE iff it does not raise ValueError.
ip_network_ok(net) ==
    /\ net[1] >= 0
    /\ net[2] \in 0..MaxPrefixLen
    /\ net[1] % Pow2(MaxPrefixLen - net[2]) = 0

\* network.num_addresses
num_addresses(net) == Pow2(MaxPrefixLen - net[2])

\* network.hosts(): ascending; network and broadcast address left out, except
\* that a /31 yields both addresses and a /32 its single address.
hosts(net) ==
    LET n == num_addresses(net)
    IN  IF n = 1 THEN <<net[1]>>
        ELSE IF n = 2 THEN <<net[1], net[1] + 1>>
        ELSE [i \in 1..(n - 2) |-> net[1] + i]

SeqRange(s) == {s[i] : i \in 1..Len(s)}

\* ------------------------------------------------------------------ ping
\* What subprocess.run does for one probe.
PingOutcomes == {"rc0", "rc_nonzero", "timeout_expired", "exception"}

\* ping(ip): True only for return code 0; both except branches return False.
pingTimeoutOnly(outcome) == outcome # "timeout_expired"
ping(outcome) == outcome = "rc0"

\* ------------------------------------------------------------- the state
VARIABLES
    threads,        \* the ScanThread objects, by index
    nthreads,       \* how many ScanThread objects were created
    scan_thread,    \* IPScannerGUI.scan_thread: an index, 0 for None
    scan_button,    \* scan_button.isEnabled()
    stop_button,    \* stop_button.isEnabled()
    progress_bar,   \* progress_bar.value()
    active_ips,     \* IPScannerGUI.active_ips
    cells_active,   \* cells of the grid painted "active"
    cells_inactive, \* cells of the grid painted "inactive"
    ip_cells,       \* IPScannerGUI.ip_cells: the /24 block its keys cover, -1 for {}
    queue,          \* signals emitted by the threads, not yet delivered to the GUI
    cli,            \* the command-line run of scan_network (pc "none" in GUI mode)
    last_start      \* ghost: how the last click on the scan button ended

vars == <<threads, nthreads, scan_thread, scan_button, stop_button,
          progress_bar, active_ips, cells_active, cells_inactive, ip_cells,
          queue, cli, last_start>>

gui_vars == <<scan_button, stop_button, progress_bar, active_ips,
              cells_active, cells_inactive, ip_cells>>

ThreadIds == 1..MaxSweeps

\* --------------------------------------------------------------- signals
StatusEvent(ip, is_active) ==
    [sig |-> "update_ip_status", ip |-> ip, is_active |-> is_active,
     current |-> 0, total |-> 0, ips |-> <<>>]

ProgressEventSwapped(current, total) ==
    [sig |-> "update_progress", ip |-> 0, is_active |-> FALSE,
     current |-> total, total |-> current, ips |-> <<>>]
ProgressEvent(current, total) ==
    [sig |-> "update_progress", ip |-> 0, is_active |-> FALSE,
     current |-> current, total |-> total, ips |-> <<>>]

CompleteEventMutant(ips) == ProgressEvent(Len(ips), Len(ips))
CompleteEvent(ips) ==
    [sig |-> "scan_complete", ip |-> 0, is_active |-> FALSE,
     current |-> 0, total |-> 0, ips |-> ips]

\* ------------------------------------------------------------ ScanThread
NoFutures == [h \in {} |-> "queued"]

\* A slot that holds no ScanThread object.
NoThread ==
    [pc |-> "none", network |-> NotAnIp, max_workers |-> 0,
     is_running |-> FALSE, qrunning |-> FALSE,
     total_ips |-> 0, processed_ips |-> 0, active_ips |-> <<>>,
     future |-> NoFutures, completed |-> <<>>, snapshot |-> {}, yielded |-> {},
     cur |-> -1, emitted |-> <<>>,
     stopped |-> FALSE, stop_running |-> {}, stop_queued |-> {}, stop_len |-> 0,
     stop_cur |-> -1]

\* ScanThread.__init__ followed by QThread.start().
NewScanThread(network, max_workers) ==
    [NoThread EXCEPT !.pc = "run", !.network = network,
                     !.max_workers = max_workers,
                     !.is_running = TRUE, !.qrunning = TRUE]

\* ScanThread.stop, with the ghost record of the first cancellation point.
StopMutant(th) == [th EXCEPT !.is_running = ~th.is_running]
stop(th) ==
    [th EXCEPT !.is_running = FALSE,
               !.stopped = TRUE,
               !.stop_running = IF th.stopped THEN th.stop_running
                   ELSE {h \in DOMAIN th.future : th.future[h] = "running"},
               !.stop_queued = IF th.stopped THEN th.stop_queued
                   ELSE {h \in DOMAIN th.future : th.future[h] = "queued"},
               !.stop_len = IF th.stopped THEN th.stop_len ELSE Len(th.emitted),
               !.stop_cur = IF th.stopped THEN th.stop_cur
                   ELSE IF th.pc = "body" THEN th.cur ELSE -1]

\* ------------------------------------------------- main, command line
\* No command-line run: main() built the GUI (line 450).
NoCli ==
    [pc |-> "none", network |-> NotAnIp, max_workers |-> 0,
     total_ips |-> 0, processed_ips |-> 0, active_ips |-> <<>>,
     future |-> NoFutures, completed |-> <<>>, i |-> 0,
     printed |-> <<>>, listed |-> <<>>]

\* main() in command-line mode, the arguments parsed (lines 427-431).
NewCli(network, workers) ==
    [NoCli EXCEPT !.pc = "scan_network", !.network = network,
                  !.max_workers = workers]

\* --workers is any integer: 0, the GUI's range, and one value above it.
CliWorkerInputs == (0..MaxWorkers) \cup {SpinBoxMax + 1}

Init ==
    /\ threads = [t \in ThreadIds |-> NoThread]
    /\ nthreads = 0
    /\ scan_thread = 0
    /\ scan_button = TRUE
    /\ stop_button = FALSE
    /\ progress_bar = 0
    /\ active_ips = <<>>
    /\ cells_active = {}
    /\ cells_inactive = {}
    /\ ip_cells = -1
    /\ queue = <<>>
    /\ cli \in {NoCli} \cup {NewCli(n, w) : n \in NetworkInputs, w \in CliWorkerInputs}
    /\ last_start = "none"

\* ------------------------------------------------------- IPScannerGUI
\* The scan and stop buttons after start_scan: lines 308-309 run only when
\* the validation of line 302 did not raise.
ButtonsAfterStartEarly(ok) == <<FALSE, TRUE>>
ButtonsAfterStartKeepsScan(ok) ==
    IF ok THEN <<TRUE, TRUE>> ELSE <<scan_button, stop_button>>
ButtonsAfterStart(ok) ==
    IF ok THEN <<FALSE, TRUE>> ELSE <<scan_button, stop_button>>

\* create_ip_grid: the keys of ip_cells are the 256 addresses of the block.
create_ip_grid(net) == net[1] \div GridSize

\* A ScanThread that has emitted scan_complete and that nothing refers to any
\* more: whatever is left of its run() touches no state, the slot is freed.
Collect(ths, keep) ==
    [t \in ThreadIds |->
        IF t # keep /\ ths[t].pc \in {"return", "done"} THEN NoThread ELSE ths[t]]

\* A click on the scan button (enabled, or no signal is delivered) with
\* (network, workers) typed in.
start_scan(network, workers) ==
    /\ cli.pc = "none"
    /\ scan_button
    /\ LET ok == ip_network_ok(network)
           b  == ButtonsAfterStart(ok)
       IN  /\ scan_button' = b[1]
           /\ stop_button' = b[2]
           /\ IF ok
              THEN /\ nthreads < MaxSweeps
                   /\ ip_cells' = create_ip_grid(network)
                   /\ cells_active' = {}
                   /\ cells_inactive' = {}
                   /\ progress_bar' = 0
                   /\ nthreads' = nthreads + 1
                   /\ scan_thread' = nthreads + 1
                   /\ threads' = [Collect(threads, 0) EXCEPT
                          ![nthreads + 1] = NewScanThread(network, workers)]
                   /\ last_start' = "accepted"
              ELSE /\ last_start' = "rejected"
                   /\ UNCHANGED <<threads, nthreads, scan_thread, progress_bar,
                                  cells_active, cells_inactive, ip_cells>>
    /\ UNCHANGED <<active_ips, queue, cli>>

\* A click on the stop button (enabled, or no signal is delivered).
stop_scan ==
    /\ stop_button
    /\ IF scan_thread # 0 /\ threads[scan_thread].qrunning
       THEN /\ threads' = [threads EXCEPT ![scan_thread] = stop(@)]
            /\ stop_button' = FALSE
       ELSE UNCHANGED <<threads, stop_button>>
    /\ UNCHANGED <<nthreads, scan_thread, scan_button, progress_bar, active_ips,
                   cells_active, cells_inactive, ip_cells, queue, cli, last_start>>

\* The slot update_progress, run for the signal at the head of the queue.
update_progress ==
    /\ queue # <<>>
    /\ Head(queue).ev.sig = "update_progress"
    /\ progress_bar' = (Head(queue).ev.current * 100) \div Head(queue).ev.total
    /\ queue' = Tail(queue)
    /\ UNCHANGED <<threads, nthreads, scan_thread, scan_button, stop_button,
                   active_ips, cells_active, cells_inactive, ip_cells, cli, last_start>>

\* The slot update_ip_status.
update_ip_status ==
    /\ queue # <<>>
    /\ Head(queue).ev.sig = "update_ip_status"
    /\ LET ip == Head(queue).ev.ip
           is_active == Head(queue).ev.is_active
       IN  IF ip_cells # -1 /\ ip \div GridSize = ip_cells
           THEN IF is_active
                THEN /\ cells_active' = cells_active \cup {ip}
                     /\ cells_inactive' = cells_inactive \ {ip}
                     /\ active_ips' = Append(active_ips, ip)
                ELSE /\ cells_inactive' = cells_inactive \cup {ip}
                     /\ cells_active' = cells_active \ {ip}
                     /\ UNCHANGED active_ips
           ELSE UNCHANGED <<cells_active, cells_inactive, active_ips>>
    /\ queue' = Tail(queue)
    /\ UNCHANGED <<threads, nthreads, scan_thread, scan_button, stop_button,
                   progress_bar, ip_cells, cli, last_start>>

\* The slot scan_complete.
ButtonsStayDisabled == <<FALSE, FALSE>>
ButtonsAfterComplete == <<TRUE, FALSE>>

scan_complete ==
    /\ queue # <<>>
    /\ Head(queue).ev.sig = "scan_complete"
    /\ active_ips' = Head(queue).ev.ips
    /\ scan_button' = ButtonsAfterComplete[1]
    /\ stop_button' = ButtonsAfterComplete[2]
    /\ progress_bar' = 100
    /\ queue' = Tail(queue)
    /\ UNCHANGED <<threads, nthreads, scan_thread, cells_active, cells_inactive,
                   ip_cells, cli, last_start>>

\* ------------------------------------------------------ ScanThread.run
FutureHosts(th) == DOMAIN th.future
DoneOnlyAlive(th) == {h \in FutureHosts(th) : th.future[h] = "true"}
Done(th) == {h \in FutureHosts(th) : th.future[h] \in {"true", "false"}}
Running(th) == {h \in FutureHosts(th) : th.future[h] = "running"}
Queued(th) == {h \in FutureHosts(th) : th.future[h] = "queued"}

\* The total the sweep reports (line 57).
TotalIps(net) == num_addresses(net)

\* The addresses a ping is submitted for (line 65).
SubmittedMutant(net) == SeqRange(SubSeq(hosts(net), 1, Len(hosts(net)) - 1))
Submitted(net) == SeqRange(hosts(net))

\* The end of the with block (line 83) waits for every submitted ping.
PoolDrainedMutant(th) == TRUE
PoolDrained(th) == Done(th) = FutureHosts(th)

\* Lines 75-76 (and 410-411): the address joins the list if its ping was True.
WithActiveMutant(ips, ip, is_active) == Append(ips, ip)
WithActive(ips, ip, is_active) == IF is_active THEN Append(ips, ip) ELSE ips

\* Lines 55-65: parse the network, count, submit one ping per host. A
\* ValueError ends run() in the except branch of line 91.
RunBegin(t) ==
    /\ threads[t].pc = "run"
    /\ LET th == threads[t]
       IN  threads' = [threads EXCEPT ![t] =
             IF ip_network_ok(th.network)
             THEN [th EXCEPT !.pc = "as_completed",
                             !.total_ips = TotalIps(th.network),
                             !.processed_ips = 0,
                             !.active_ips = <<>>,
                             !.future = [h \in Submitted(th.network) |-> "queued"]]
             ELSE [th EXCEPT !.pc = "return"]]
    /\ UNCHANGED <<nthreads, scan_thread, gui_vars, queue, cli, last_start>>

\* The executor's work queue is first in, first out: the next host to start.
NextQueued(th) == CHOOSE h \in Queued(th) : \A g \in Queued(th) : h <= g

\* A worker of the pool takes the next work item (at most max_workers
\* workers exist); it does so whatever is_running says.
MayStartMutant(th) == Queued(th) # {} /\ Cardinality(Running(th)) < th.max_workers + 1
MayStart(th) == Queued(th) # {} /\ Cardinality(Running(th)) < th.max_workers

WorkerStart(t) ==
    /\ MayStart(threads[t])
    /\ threads' = [threads EXCEPT ![t].future[NextQueued(threads[t])] = "running"]
    /\ UNCHANGED <<nthreads, scan_thread, gui_vars, queue, cli, last_start>>

\* ping returns in a worker: the future is done, in completion order.
PingReturn(t, h, outcome) ==
    /\ h \in Running(threads[t])
    /\ threads' = [threads EXCEPT
          ![t].future[h] = IF ping(outcome) THEN "true" ELSE "false",
          ![t].completed = Append(@, h)]
    /\ UNCHANGED <<nthreads, scan_thread, gui_vars, queue, cli, last_start>>

\* as_completed is entered (line 68): the futures already done are yielded
\* first, in no particular order.
AsCompleted(t) ==
    /\ threads[t].pc = "as_completed"
    /\ threads' = [threads EXCEPT ![t].snapshot = Done(threads[t]),
                                  ![t].pc = "next"]
    /\ UNCHANGED <<nthreads, scan_thread, gui_vars, queue, cli, last_start>>

\* The futures as_completed may yield next.
YieldableAnyDone(th) == Done(th) \ th.yielded
Yieldable(th) ==
    IF th.snapshot \ th.yielded # {}
    THEN th.snapshot \ th.yielded
    ELSE LET later == SelectSeq(th.completed, LAMBDA h : h \notin th.yielded)
         IN  IF later = <<>> THEN {} ELSE {Head(later)}

\* Line 69: whether the loop goes on with the future it was given.
GoesOnMutant(th) == TRUE
GoesOn(th) == th.is_running

\* Lines 68-70: the loop takes the next done future and tests is_running.
LoopNext(t, h) ==
    /\ threads[t].pc = "next"
    /\ h \in Yieldable(threads[t])
    /\ threads' = [threads EXCEPT ![t] =
          IF GoesOn(@)
          THEN [@ EXCEPT !.pc = "body", !.cur = h, !.yielded = @ \cup {h}]
          ELSE [@ EXCEPT !.pc = "shutdown", !.yielded = @ \cup {h}]]
    /\ UNCHANGED <<nthreads, scan_thread, gui_vars, queue, cli, last_start>>

\* Line 68: every future was yielded, the loop ends.
LoopEnd(t) ==
    /\ threads[t].pc = "next"
    /\ threads[t].yielded = FutureHosts(threads[t])
    /\ threads' = [threads EXCEPT ![t].pc = "shutdown"]
    /\ UNCHANGED <<nthreads, scan_thread, gui_vars, queue, cli, last_start>>

\* Lines 72-79: the result is read, appended if active, update_ip_status emitted.
EmitStatus(t) ==
    /\ threads[t].pc = "body"
    /\ LET th == threads[t]
           is_active == th.future[th.cur] = "true"
           ev == StatusEvent(th.cur, is_active)
       IN  /\ threads' = [threads EXCEPT ![t] =
                 [@ EXCEPT !.pc = "count",
                           !.active_ips = WithActive(@, th.cur, is_active),
                           !.emitted = Append(@, ev)]]
           /\ queue' = Append(queue, [t |-> t, ev |-> ev])
    /\ UNCHANGED <<nthreads, scan_thread, gui_vars, cli, last_start>>

\* Lines 81-82: processed_ips is counted and update_progress emitted.
EmitProgress(t) ==
    /\ threads[t].pc = "count"
    /\ LET th == threads[t]
           ev == ProgressEvent(th.processed_ips + 1, th.total_ips)
       IN  /\ threads' = [threads EXCEPT ![t] =
                 [@ EXCEPT !.pc = "next",
                           !.cur = -1,
                           !.processed_ips = @ + 1,
                           !.emitted = Append(@, ev)]]
           /\ queue' = Append(queue, [t |-> t, ev |-> ev])
    /\ UNCHANGED <<nthreads, scan_thread, gui_vars, cli, last_start>>

\* Line 83, the end of the with block: executor.shutdown(wait=True) returns
\* once every submitted ping has run.
Shutdown(t) ==
    /\ threads[t].pc = "shutdown"
    /\ PoolDrained(threads[t])
    /\ threads' = [threads EXCEPT ![t].pc = "final"]
    /\ UNCHANGED <<nthreads, scan_thread, gui_vars, queue, cli, last_start>>

\* Lines 85-86: the last update_progress, if the sweep was not stopped.
FinalProgressAlways(th) == TRUE
FinalProgressDue(th) == th.is_running

FinalProgress(t) ==
    /\ threads[t].pc = "final"
    /\ LET th == threads[t]
           ev == ProgressEvent(th.total_ips, th.total_ips)
       IN  IF FinalProgressDue(th)
           THEN /\ threads' = [threads EXCEPT ![t] =
                      [@ EXCEPT !.pc = "complete", !.emitted = Append(@, ev)]]
                /\ queue' = Append(queue, [t |-> t, ev |-> ev])
           ELSE /\ threads' = [threads EXCEPT ![t].pc = "complete"]
                /\ UNCHANGED queue
    /\ UNCHANGED <<nthreads, scan_thread, gui_vars, cli, last_start>>

\* Lines 88-89: scan_complete is emitted.
EmitComplete(t) ==
    /\ threads[t].pc = "complete"
    /\ LET ev == CompleteEvent(threads[t].active_ips)
       IN  /\ threads' = [threads EXCEPT ![t] =
                 [@ EXCEPT !.pc = "return", !.emitted = Append(@, ev)]]
           /\ queue' = Append(queue, [t |-> t, ev |-> ev])
    /\ UNCHANGED <<nthreads, scan_thread, gui_vars, cli, last_start>>

\* run() returns: QThread.isRunning() is False from here on.
ThreadReturn(t) ==
    /\ threads[t].pc = "return"
    /\ threads' = Collect([threads EXCEPT ![t].pc = "done", ![t].qrunning = FALSE],
                          scan_thread)
    /\ UNCHANGED <<nthreads, scan_thread, gui_vars, queue, cli, last_start>>

\* ---------------------------------------------------------- scan_network
\* A line scan_network prints in its loop.
FoundLine(ip) == [line |-> "found", ip |-> ip, current |-> 0, total |-> 0]
ProgressLine(current, total) ==
    [line |-> "progress", ip |-> 0, current |-> current, total |-> total]

\* ThreadPoolExecutor(max_workers) raises ValueError unless max_workers > 0.
executor_ok(max_workers) == max_workers > 0

\* Lines 393-405: parse, count, create the pool, submit one ping per host.
\* A ValueError (range, or pool size) ends main() at line 446.
CliBegin ==
    /\ cli.pc = "scan_network"
    /\ cli' = IF ip_network_ok(cli.network) /\ executor_ok(cli.max_workers)
              THEN [cli EXCEPT !.pc = "loop",
                               !.total_ips = TotalIps(cli.network),
                               !.future = [h \in Submitted(cli.network) |-> "queued"],
                               !.i = 1]
              ELSE [cli EXCEPT !.pc = "error"]
    /\ UNCHANGED <<threads, nthreads, scan_thread, gui_vars, queue, last_start>>

CliWorkerStart ==
    /\ MayStart(cli)
    /\ cli' = [cli EXCEPT !.future[NextQueued(cli)] = "running"]
    /\ UNCHANGED <<threads, nthreads, scan_thread, gui_vars, queue, last_start>>

CliPingReturn(h, outcome) ==
    /\ h \in Running(cli)
    /\ cli' = [cli EXCEPT
          !.future[h] = IF ping(outcome) THEN "true" ELSE "false",
          !.completed = Append(@, h)]
    /\ UNCHANGED <<threads, nthreads, scan_thread, gui_vars, queue, last_start>>

\* Lines 408-418: the result of the i-th future, in the order of submission.
CliResult ==
    /\ cli.pc = "loop"
    /\ cli.i <= Cardinality(FutureHosts(cli))
    /\ LET ip == hosts(cli.network)[cli.i]
           n == cli.processed_ips + 1
           found == IF cli.future[ip] = "true" THEN <<FoundLine(ip)>> ELSE <<>>
           prog == IF n % ProgressEvery = 0 \/ n = cli.total_ips
                   THEN <<ProgressLine(n, cli.total_ips)>> ELSE <<>>
       IN  /\ cli.future[ip] \in {"true", "false"}
           /\ cli' = [cli EXCEPT
                 !.active_ips = WithActive(@, ip, cli.future[ip] = "true"),
                 !.processed_ips = n,
                 !.printed = @ \o found \o prog,
                 !.i = @ + 1]
    /\ UNCHANGED <<threads, nthreads, scan_thread, gui_vars, queue, last_start>>

\* Lines 419-444: the pool is shut down, scan_network returns active_ips and
\* main() lists them.
CliReturn ==
    /\ cli.pc = "loop"
    /\ cli.i > Cardinality(FutureHosts(cli))
    /\ PoolDrained(cli)
    /\ cli' = [cli EXCEPT !.pc = "done", !.listed = cli.active_ips]
    /\ UNCHANGED <<threads, nthreads, scan_thread, gui_vars, queue, last_start>>

Next ==
    \/ \E n \in NetworkInputs, w \in 1..MaxWorkers : start_scan(n, w)
    \/ stop_scan
    \/ update_progress
    \/ update_ip_status
    \/ scan_complete
    \/ \E t \in ThreadIds : RunBegin(t)
    \/ \E t \in ThreadIds : WorkerStart(t)
    \/ \E t \in ThreadIds : \E h \in FutureHosts(threads[t]) :
          \E o \in PingOutcomes : PingReturn(t, h, o)
    \/ \E t \in ThreadIds : AsCompleted(t)
    \/ \E t \in ThreadIds : \E h \in FutureHosts(threads[t]) : LoopNext(t, h)
    \/ \E t \in ThreadIds : LoopEnd(t)
    \/ \E t \in ThreadIds : EmitStatus(t)
    \/ \E t \in ThreadIds : EmitProgress(t)
    \/ \E t \in ThreadIds : Shutdown(t)
    \/ \E t \in ThreadIds : FinalProgress(t)
    \/ \E t \in ThreadIds : EmitComplete(t)
    \/ \E t \in ThreadIds : ThreadReturn(t)
    \/ CliBegin
    \/ CliWorkerStart
    \/ \E h \in FutureHosts(cli) : \E o \in PingOutcomes : CliPingReturn(h, o)
    \/ CliResult
    \/ CliReturn

Spec == Init /\ [][Next]_vars

\* What the scheduling grants: run() of a started thread goes on, the pool
\* starts a queued ping when a worker is free, a ping returns (its subprocess
\* has a timeout of one second, line 29), and the event loop of the GUI
\* delivers the queued signals. The clicks of the user are not granted.
ThreadStep(t) ==
    \/ RunBegin(t)
    \/ AsCompleted(t)
    \/ \E h \in FutureHosts(threads[t]) : LoopNext(t, h)
    \/ LoopEnd(t)
    \/ EmitStatus(t)
    \/ EmitProgress(t)
    \/ Shutdown(t)
    \/ FinalProgress(t)
    \/ EmitComplete(t)
    \/ ThreadReturn(t)

WorkerStep(t) ==
    \/ WorkerStart(t)
    \/ \E h \in FutureHosts(threads[t]) : \E o \in PingOutcomes : PingReturn(t, h, o)

EventLoop == update_progress \/ update_ip_status \/ scan_complete

Fairness ==
    /\ \A t \in ThreadIds : WF_vars(ThreadStep(t)) /\ WF_vars(WorkerStep(t))
    /\ WF_vars(EventLoop)

FairSpec == Init /\ [][Next]_vars /\ Fairness

\* ---------------------------------------------------------------- claims
\* The signals of one kind a thread has emitted so far.
Emitted(th, sig) == SelectSeq(th.emitted, LAMBDA e : e.sig = sig)

\* The addresses of the update_ip_status signals, in order of emission.
ResultIps(th) ==
    LET r == Emitted(th, "update_ip_status") IN [i \in 1..Len(r) |-> r[i].ip]

NoDuplicates(s) == \A i, j \in 1..Len(s) : s[i] = s[j] => i = j

\* run() is over, or has only to return.
Finished(th) == th.pc \in {"return", "done"}

\* The sweep was started and has not emitted scan_complete.
Active(th) == th.pc \notin {"none", "return", "done"}

ActiveSweeps == {t \in ThreadIds : Active(threads[t])}

\* C1: in a sweep that was not cancelled, the addresses of the result events
\* are exactly the host addresses of the range, each one once; and in no
\* sweep does an address appear in two result events.
C1_OneResultPerHost ==
    \A t \in ThreadIds :
        LET th == threads[t] IN
        /\ NoDuplicates(ResultIps(th))
        /\ (Finished(th) /\ th.is_running) =>
              /\ SeqRange(ResultIps(th)) = SeqRange(hosts(th.network))
              /\ Len(ResultIps(th)) = Len(hosts(th.network))

\* A sweep of a range of two hosts ended, not cancelled, with its two results.
C1_Witness ==
    \E t \in ThreadIds :
        /\ Finished(threads[t])
        /\ threads[t].is_running
        /\ Len(hosts(threads[t].network)) = 2
        /\ Len(ResultIps(threads[t])) = 2

\* C2 (as claimed): in a sweep that was not cancelled, processed_ips reaches
\* the total of the progress events and the result events number that total.
C2_ProcessedReachesTotal ==
    \A t \in ThreadIds :
        LET th == threads[t] IN
        (Finished(th) /\ th.is_running) =>
            /\ th.processed_ips = th.total_ips
            /\ Len(ResultIps(th)) = th.total_ips

\* C3 (as claimed): the total a sweep uses is the number of host addresses
\* of the range, the number of addresses enumerated and probed.
C3_TotalIsHostCount ==
    \A t \in ThreadIds :
        LET th == threads[t] IN
        /\ th.future # NoFutures =>
              th.total_ips = Cardinality(FutureHosts(th))
        /\ cli.future # NoFutures =>
              cli.total_ips = Cardinality(FutureHosts(cli))

\* C4: a sweep emits scan_complete at most once, nothing after it, and when
\* run() is over it has emitted it exactly once, as its last signal.
C4_CompleteOnceAndLast ==
    \A t \in ThreadIds :
        LET th == threads[t]
            n  == Len(th.emitted)
        IN  /\ Len(Emitted(th, "scan_complete")) <= 1
            /\ \A i \in 1..n : th.emitted[i].sig = "scan_complete" => i = n
            /\ Finished(th) =>
                  /\ Len(Emitted(th, "scan_complete")) = 1
                  /\ th.emitted[n].sig = "scan_complete"

\* A cancelled sweep ended with result and progress signals before scan_complete.
C4_Witness ==
    \E t \in ThreadIds :
        /\ Finished(threads[t])
        /\ threads[t].stopped
        /\ ~threads[t].is_running
        /\ Len(threads[t].emitted) >= 3

\* C5 (as claimed): an address that no worker had taken when stop was called
\* is never probed: its ping stays in the work queue.
C5_NoProbeAfterCancel ==
    \A t \in ThreadIds :
        LET th == threads[t] IN
        th.stopped => \A h \in th.stop_queued : th.future[h] = "queued"

ResultsAfterStop(th) ==
    LET late == SubSeq(th.emitted, th.stop_len + 1, Len(th.emitted))
        r == SelectSeq(late, LAMBDA e : e.sig = "update_ip_status")
    IN  [i \in 1..Len(r) |-> r[i].ip]

\* C7 (as claimed): the result events emitted after stop was called are for
\* probes in flight at that point, and exactly one scan_complete is emitted.
C7_OnlyInFlightAfterCancel ==
    \A t \in ThreadIds :
        LET th == threads[t] IN
        th.stopped =>
            /\ SeqRange(ResultsAfterStop(th)) \subseteq th.stop_running
            /\ Len(ResultsAfterStop(th)) <= Cardinality(th.stop_running)
            /\ Finished(th) => Len(Emitted(th, "scan_complete")) = 1

\* C7 (amended): after stop was called at most one result event is emitted,
\* for the probe whose result the loop had already taken (it had returned,
\* it was not in flight), and exactly one scan_complete is emitted.
C7_AtMostOneResultAfterCancel ==
    \A t \in ThreadIds :
        LET th == threads[t] IN
        th.stopped =>
            /\ Len(ResultsAfterStop(th)) <= 1
            /\ SeqRange(ResultsAfterStop(th)) \subseteq {th.stop_cur}
            /\ SeqRange(ResultsAfterStop(th)) \cap th.stop_running = {}
            /\ Finished(th) => Len(Emitted(th, "scan_complete")) = 1

\* A cancelled sweep is over; stop came while a probe was in flight and
\* while the loop held a result it had not yet emitted.
C7_Witness ==
    \E t \in ThreadIds :
        /\ Finished(threads[t])
        /\ threads[t].stopped
        /\ threads[t].stop_running # {}
        /\ Len(ResultsAfterStop(threads[t])) = 1

\* C8: stop is idempotent: in every state, calling it twice gives the state
\* that calling it once gives, and once it was called, calling it again
\* changes nothing.
C8_CancelIdempotent ==
    \A t \in ThreadIds :
        LET th == threads[t] IN
        th.pc # "none" =>
            /\ stop(stop(th)) = stop(th)
            /\ th.stopped => stop(th) = th

\* stop was called in the middle of a sweep.
C8_Witness ==
    \E t \in ThreadIds :
        /\ threads[t].stopped
        /\ ~threads[t].is_running
        /\ threads[t].pc \in {"next", "body", "count"}

\* C9: at most one sweep is active, and while one is active the scan button
\* delivers no click: no start request is accepted.
C9_OneSweepInFlight ==
    /\ Cardinality(ActiveSweeps) <= 1
    /\ ActiveSweeps # {} =>
          /\ ~scan_button
          /\ \A n \in NetworkInputs, w \in 1..MaxWorkers : ~ENABLED start_scan(n, w)

\* A second sweep is active, after the first one was over.
C9_Witness ==
    /\ nthreads = 2
    /\ Active(threads[2])
    /\ Running(threads[2]) # {}

\* C10: after a start with an invalid range no sweep is active, no probe is
\* queued or in flight, no signal is pending, and the scan button is
\* enabled: a valid start is accepted next. On the command line an invalid
\* range ends the run with no ping submitted and nothing printed by the loop.
C10_InvalidRangeRejected ==
    /\ last_start = "rejected" =>
          /\ ActiveSweeps = {}
          /\ \A t \in ThreadIds :
                Running(threads[t]) = {} /\ Queued(threads[t]) = {}
          /\ queue = <<>>
          /\ scan_button
          /\ nthreads < MaxSweeps => ENABLED start_scan(<<0, 30>>, 1)
    /\ (cli.pc # "none" /\ ~ip_network_ok(cli.network)) =>
          /\ cli.pc \in {"scan_network", "error"}
          /\ cli.future = NoFutures
          /\ cli.printed = <<>>

\* An invalid range was just rejected, before any sweep.
C10_Witness ==
    /\ last_start = "rejected"
    /\ nthreads = 0
    /\ ENABLED start_scan(<<0, 30>>, 1)

\* C11 (as claimed): a run whose worker count is outside 1..200 submits no
\* ping, on the command line as in the GUI.
C11_ConcurrencyOutOfBoundRejected ==
    /\ \A t \in ThreadIds :
          threads[t].pc # "none" =>
              threads[t].max_workers \in 1..SpinBoxMax
    /\ (cli.pc # "none" /\ cli.max_workers \notin 1..SpinBoxMax) =>
          cli.future = NoFutures

\* The live list of a run: no longer than the total, no address twice, every
\* entry a host of the range whose ping returned True.
LiveListOk(run) ==
    /\ Len(run.active_ips) <= run.total_ips
    /\ NoDuplicates(run.active_ips)
    /\ \A i \in 1..Len(run.active_ips) :
          /\ run.active_ips[i] \in SeqRange(hosts(run.network))
          /\ run.future[run.active_ips[i]] = "true"

\* C12: in every state, the live list of every sweep (ScanThread.run and
\* scan_network) has at most total entries, no address twice, and only hosts
\* of the range whose probe was alive.
C12_LiveListSound ==
    /\ \A t \in ThreadIds : LiveListOk(threads[t])
    /\ LiveListOk(cli)

\* A sweep of two hosts, one alive and in the list, one not alive and
\* reported, not in the list.
C12_Witness ==
    \E t \in ThreadIds :
        LET th == threads[t] IN
        /\ Len(ResultIps(th)) = 2
        /\ Len(th.active_ips) = 1
        /\ \E h \in FutureHosts(th) : th.future[h] = "false"

\* The place of an address in a sequence without duplicates (0 if absent).
Pos(s, x) == IF \E i \in 1..Len(s) : s[i] = x
             THEN CHOOSE i \in 1..Len(s) : s[i] = x ELSE 0

\* Any two entries of the live list are in the order their pings returned.
InCompletionOrder(run) ==
    \A i, j \in 1..Len(run.active_ips) :
        i < j => Pos(run.completed, run.active_ips[i])
                   < Pos(run.completed, run.active_ips[j])

LiveResults(th) ==
    LET r == SelectSeq(Emitted(th, "update_ip_status"), LAMBDA e : e.is_active)
    IN  [i \in 1..Len(r) |-> r[i].ip]

C14_ProgressThenResult ==
    \A t \in ThreadIds :
        LET th == threads[t]
            e  == th.emitted
            n  == Len(ResultIps(th))
        IN  /\ \A i \in 1..Len(e) :
                  e[i].sig = "update_ip_status" =>
                      /\ i > 1
                      /\ e[i - 1].sig = "update_progress"
            /\ Finished(th) =>
                  /\ Len(e) = 2 * n + 1
                  /\ e[Len(e)].sig = "scan_complete"

\* C14 (amended): for every result handled the engine emits the result
\* event and then the progress event (processed, total), the pairs never
\* interleaved; after the pairs comes one more progress event (total, total)
\* if cancel was not seen by then, and then one complete event.
C14_ResultThenProgress ==
    \A t \in ThreadIds :
        LET th   == threads[t]
            e    == th.emitted
            n    == Len(Emitted(th, "update_ip_status"))
            rest == Len(e) - 2 * n
        IN  /\ rest \in -1..2
            /\ (rest = -1) <=> th.pc = "count"
            /\ \A i \in 1..n :
                  /\ e[2 * i - 1].sig = "update_ip_status"
                  /\ 2 * i <= Len(e) =>
                        /\ e[2 * i].sig = "update_progress"
                        /\ e[2 * i].current = i
                        /\ e[2 * i].total = th.total_ips
            /\ rest >= 1 =>
                  IF e[2 * n + 1].sig = "update_progress"
                  THEN /\ e[2 * n + 1].current = th.total_ips
                       /\ e[2 * n + 1].total = th.total_ips
                       /\ ~th.stopped \/ th.stop_len > 2 * n
                  ELSE /\ rest = 1
                       /\ th.stopped /\ th.stop_len <= 2 * n
            /\ Finished(th) <=>
                  /\ rest >= 1
                  /\ e[Len(e)].sig = "scan_complete"
                  /\ e[Len(e)].ips = th.active_ips

\* A sweep of two hosts that was not cancelled has emitted result, progress,
\* result, progress, the closing progress and complete.
C14_Witness ==
    \E t \in ThreadIds :
        LET e == threads[t].emitted IN
        /\ ~threads[t].stopped
        /\ Len(e) = 6
        /\ e[1].sig = "update_ip_status"
        /\ e[2].sig = "update_progress"
        /\ e[3].sig = "update_ip_status"
        /\ e[5].sig = "update_progress"
        /\ e[6].sig = "scan_complete"

\* C15: across the progress events of one sweep the processed count never
\* decreases and never exceeds the total count, and every event carries the
\* total count of the sweep.
C15_ProgressMonotone ==
    \A t \in ThreadIds :
        LET th == threads[t]
            p  == Emitted(th, "update_progress")
        IN  /\ th.processed_ips <= th.total_ips
            /\ \A i \in 1..Len(p) :
                  /\ p[i].total = th.total_ips
                  /\ p[i].current \in 1..p[i].total
                  /\ \A j \in 1..Len(p) : i < j => p[i].current <= p[j].current

\* A sweep that was cancelled has emitted two progress events with a
\* growing processed count.
C15_Witness ==
    \E t \in ThreadIds :
        LET p == Emitted(threads[t], "update_progress") IN
        /\ threads[t].stopped
        /\ Len(p) >= 2
        /\ p[1].current < p[2].current

\* The pool of a run keeps its bound and hands each address to one worker.
PoolOk(run) ==
    /\ Cardinality(Running(run)) <= run.max_workers
    /\ NoDuplicates(run.completed)
    /\ SeqRange(run.completed) = Done(run)
    /\ \A h \in FutureHosts(run) : h \in SeqRange(hosts(run.network))

\* C16: at every moment of a sweep the probes in flight are at most the
\* configured concurrency and no address is probed twice, on both paths,
\* also when the concurrency exceeds the number of addresses.
C16_PoolBound ==
    /\ \A t \in ThreadIds : PoolOk(threads[t])
    /\ PoolOk(cli)

\* Every address of a range smaller than the pool is being probed.
C16_Witness ==
    \E t \in ThreadIds :
        LET th == threads[t] IN
        /\ th.max_workers > Cardinality(FutureHosts(th))
        /\ FutureHosts(th) # {}
        /\ Running(th) = FutureHosts(th)

\* C17 (as claimed): when the complete event has been emitted no probe of
\* the sweep is running, and either the processed count equals the total
\* count or the sweep was cancelled and its probes have drained.
C17_CompleteWhenCountedOrDrained ==
    \A t \in ThreadIds :
        LET th == threads[t] IN
        Finished(th) =>
            /\ Running(th) = {}
            /\ \/ th.processed_ips = th.total_ips
               \/ th.stopped /\ Running(th) = {}

\* A ping that ends in any way but return code 0 leaves False as the result
\* of its future, in the GUI sweep and in the batch sweep.
FailedProbeIsFalse ==
    \A o \in PingOutcomes \ {"rc0"} :
        /\ \A t \in ThreadIds : \A h \in FutureHosts(threads[t]) :
              PingReturn(t, h, o) => threads'[t].future[h] = "false"
        /\ \A h \in FutureHosts(cli) :
              CliPingReturn(h, o) => cli'.future[h] = "false"

\* A sweep that was not cancelled ends with one result event per host, the
\* failed ones with is_active False, and with the complete event.
FailureDoesNotAbort ==
    \A t \in ThreadIds :
        LET th == threads[t]
            r  == Emitted(th, "update_ip_status")
        IN  /\ th.pc \notin {"none", "run"} =>
              FutureHosts(th) = SeqRange(hosts(th.network))
            /\ \A i \in 1..Len(r) :
                  r[i].is_active = (th.future[r[i].ip] = "true")
            /\ (Finished(th) /\ ~th.stopped) =>
                  /\ SeqRange(ResultIps(th)) = FutureHosts(th)
                  /\ Len(Emitted(th, "scan_complete")) = 1

\* C18: a probe that fails (non-zero return code, timeout or any exception)
\* is recorded as not alive and never aborts the sweep: every address still
\* gets its probe and its result, and the complete event is still emitted.
C18_FailedProbeAbsorbed == []FailureDoesNotAbort /\ [][FailedProbeIsFalse]_vars

\* A sweep of two hosts, one of them with a failed probe, has ended with two
\* result events and the complete event.
C18_Witness ==
    \E t \in ThreadIds :
        LET th == threads[t] IN
        /\ Finished(th)
        /\ ~th.stopped
        /\ Len(ResultIps(th)) = 2
        /\ \E h, g \in FutureHosts(th) :
              th.future[h] = "false" /\ th.future[g] = "true"
        /\ Len(th.active_ips) = 1

\* C19: every started sweep eventually emits its complete event, cancelled
\* or not and whatever the pings return, when the thread and the workers are
\* scheduled and every ping returns.
C19_SweepEnds ==
    \A t \in ThreadIds : Active(threads[t]) ~> Finished(threads[t])

\* A cancelled sweep with a failed ping has emitted its complete event.
C19_Witness ==
    \E t \in ThreadIds :
        LET th == threads[t] IN
        /\ th.stopped
        /\ Finished(th)
        /\ \E h \in FutureHosts(th) : th.future[h] = "false"
        /\ th.emitted[Len(th.emitted)].sig = "scan_complete"

\* The sweep the GUI started has not had its complete event handled.
SweepPending ==
    /\ scan_thread # 0
    /\ \/ Active(threads[scan_thread])
       \/ \E i \in 1..Len(queue) :
             queue[i].t = scan_thread /\ queue[i].ev.sig = "scan_complete"

\* The buttons agree with the sweep in every state.
ButtonsFollowSweep ==
    /\ scan_button <=> ~SweepPending
    /\ stop_button =>
          /\ SweepPending
          /\ ~threads[scan_thread].stopped

\* The start button goes off only in an accepted start and comes back only
\* in the handling of a complete event.
ButtonsChangeAtEnds ==
    /\ (scan_button /\ ~scan_button') =>
          \E n \in NetworkInputs, w \in 1..MaxWorkers :
              ip_network_ok(n) /\ start_scan(n, w)
    /\ (~scan_button /\ scan_button') => scan_complete

\* C20: the start button is disabled exactly from an accepted start until
\* the complete event of that sweep is handled, the stop button is enabled
\* only while the sweep is pending and stop() was not called, and after every
\* accepted start the start button is eventually enabled again.
C20_ButtonStateMachine ==
    /\ []ButtonsFollowSweep
    /\ [][ButtonsChangeAtEnds]_vars
    /\ (~scan_button ~> scan_button)

\* A cancelled sweep is over and handled: start is enabled again, stop is not.
C20_Witness ==
    /\ scan_thread # 0
    /\ threads[scan_thread].stopped
    /\ Finished(threads[scan_thread])
    /\ queue = <<>>
    /\ scan_button
    /\ ~stop_button
    /\ progress_bar = 100

====
